---- MODULE Spec2Model ----
(***************************************************************************)
(* A model of the rust_blockchain consensus engine: transactions, blocks,  *)
(* the UTXO set, the mining loop and Blockchain::add_block.                *)
(*                                                                         *)
(* Hashes are modelled by their preimage: a 32-byte value is a tuple whose *)
(* first element is a tag ("num" for a literal byte array, "sha" for the   *)
(* SHA-256 of a public key, "txid" for a transaction hash, "blk" for a     *)
(* block hash, "genesis" for the hard-coded genesis digest).  Two hashes   *)
(* are equal iff their preimages are equal.  HashNum gives the value of a  *)
(* hash as a big-endian integer, scaled down to 0 .. HashSpace-1.          *)
(***************************************************************************)
EXTENDS Integers, Sequences, FiniteSets, TLC

VARIABLES chain, utxos, now, block, pc, txCount, result, submitted, before, probe

vars == <<chain, utxos, now, block, pc, txCount, result, submitted, before, probe>>

(***************************************************************************)
(* Bounds of the model.                                                    *)
(***************************************************************************)
MaxChain == 3
MaxChainApi == 5
MaxTicks == 1
MaxTxs == 2
MaxBlockTxs == 2
HashSpace == 4
MaxInputs == 2
MaxOutputs == 2
MaxWrites == 2
HashBytes == 2
MaxNonce == 1001

(***************************************************************************)
(* Program constants.                                                      *)
(***************************************************************************)
GenesisTimestamp == 1747162780
GenesisNonce == 8376
TargetNum == 1
get_block_reward == 50000000
NonceRefresh == 1000
\* u64 values are scaled to 30 bits: U64Modulus stands for 2^64 and
\* U64Modulus \div 2 for 2^63.
U64Modulus == 1073741824

Keys == {1, 2}

(***************************************************************************)
(* Byte arrays and hashing.                                                *)
(***************************************************************************)
ZeroHash == <<"num", 0>>
ChainTarget == <<"num", TargetNum>>
GenesisDigest == <<"genesis">>
ZeroSignature == <<"sig0">>
ZeroPubkey == <<"sec1zero", 0>>

\* SHA-256 of the bytes of an encoded public key
Sha256(bytes) == <<"sha", bytes>>

\* VerifyingKey::to_encoded_point(compress)
to_encoded_point(k, compress) == <<IF compress THEN "sec1c" ELSE "sec1u", k>>

\* Wallet::new: pkhash is the hash of the uncompressed encoding
Wallet_pkhash(k) == Sha256(to_encoded_point(k, FALSE))

\* u64 as i64
AsI64(v) == IF v >= U64Modulus \div 2 THEN v - U64Modulus ELSE v

(***************************************************************************)
(* Transactions.                                                           *)
(***************************************************************************)
TxOutput_new(value, pkhash) == [value |-> value, pkhash |-> pkhash]

TxInput_new_unsigned(txid, output) ==
    [txid |-> txid, output |-> output, signature |-> ZeroSignature, pubkey |-> ZeroPubkey]

sighash(input) == <<"sighash", input.txid, input.output, input.pubkey>>

\* SigningKey::sign: deterministic ECDSA over the message
EcdsaSign(k, msg) == <<"sig", k, msg>>

TxInput_sign(input, k) ==
    LET withKey == [input EXCEPT !.pubkey = to_encoded_point(k, TRUE)]
    IN  [withKey EXCEPT !.signature = EcdsaSign(k, sighash(withKey))]

TxInput_verify_signature(input) ==
    IF input.pubkey[1] # "sec1c" THEN "InvalidPublicKey"
    ELSE IF input.signature[1] # "sig" THEN "InvalidSignature"
    ELSE IF input.signature # EcdsaSign(input.pubkey[2], sighash(input))
         THEN "SignatureVerificationFailed"
    ELSE "Ok"

Transaction_hash(tx) == <<"txid", tx.inputs, tx.outputs, tx.timestamp>>

Transaction_new(inputs, outputs, t) ==
    [id |-> ZeroHash, timestamp |-> t, inputs |-> inputs, outputs |-> outputs]

new_coinbase(miner_pkhash, reward, t) ==
    LET tx == [id |-> ZeroHash, timestamp |-> t, inputs |-> <<>>,
               outputs |-> <<TxOutput_new(reward, miner_pkhash)>>]
    IN  [tx EXCEPT !.id = Transaction_hash(tx)]

Transaction_sign(tx, k) ==
    LET signed == [tx EXCEPT !.inputs = [i \in DOMAIN tx.inputs |-> TxInput_sign(tx.inputs[i], k)]]
    IN  [signed EXCEPT !.id = Transaction_hash(signed)]

verify_signatures(tx) ==
    LET bad == {i \in DOMAIN tx.inputs : TxInput_verify_signature(tx.inputs[i]) # "Ok"}
    IN  IF bad = {} THEN "Ok"
        ELSE TxInput_verify_signature(tx.inputs[CHOOSE i \in bad : \A j \in bad : i <= j])

\* number of inputs of tx with the outpoint of input
SameOutpointCount(tx, input) ==
    Cardinality({i \in DOMAIN tx.inputs :
        tx.inputs[i].txid = input.txid /\ tx.inputs[i].output = input.output})

SamePkhashCount(tx, output) ==
    Cardinality({i \in DOMAIN tx.outputs : tx.outputs[i].pkhash = output.pkhash})

\* the loop over outputs: the first output, in order, that is zero-valued
\* or shares its pkhash decides
OutputsCheck(tx) ==
    LET bad == {i \in DOMAIN tx.outputs :
                   tx.outputs[i].value = 0 \/ SamePkhashCount(tx, tx.outputs[i]) > 1}
        first == CHOOSE i \in bad : \A j \in bad : i <= j
    IN  IF bad = {} THEN "Ok"
        ELSE IF tx.outputs[first].value = 0 THEN "ZeroValueOutput"
        ELSE "DuplicateOutput"

\* Transaction::verify comparing the id before it verifies the signatures
Transaction_verify_IdFirst(tx, t) ==
    IF tx.inputs = <<>> THEN "EmptyInputs"
    ELSE IF tx.outputs = <<>> THEN "EmptyOutputs"
    ELSE IF tx.id # Transaction_hash(tx) THEN "InvalidID"
    ELSE IF verify_signatures(tx) # "Ok" THEN verify_signatures(tx)
    ELSE IF \E i \in DOMAIN tx.inputs : SameOutpointCount(tx, tx.inputs[i]) > 1
         THEN "DuplicateInput"
    ELSE IF OutputsCheck(tx) # "Ok" THEN OutputsCheck(tx)
    ELSE IF tx.timestamp > t THEN "InvalidTimestamp"
    ELSE "Ok"

Transaction_verify(tx, t) ==
    IF tx.inputs = <<>> THEN "EmptyInputs"
    ELSE IF tx.outputs = <<>> THEN "EmptyOutputs"
    ELSE IF verify_signatures(tx) # "Ok" THEN verify_signatures(tx)
    ELSE IF \E i \in DOMAIN tx.inputs : SameOutpointCount(tx, tx.inputs[i]) > 1
         THEN "DuplicateInput"
    ELSE IF OutputsCheck(tx) # "Ok" THEN OutputsCheck(tx)
    ELSE IF tx.id # Transaction_hash(tx) THEN "InvalidID"
    ELSE IF tx.timestamp > t THEN "InvalidTimestamp"
    ELSE "Ok"

\* verify_coinbase without the count of the outputs
verify_coinbase_AnyOutputs(tx) ==
    IF Len(tx.inputs) # 0 \/ tx.id # Transaction_hash(tx)
    THEN "InvalidCoinbase"
    ELSE "Ok"

verify_coinbase(tx) ==
    IF Len(tx.inputs) # 0 \/ Len(tx.outputs) # 1 \/ tx.id # Transaction_hash(tx)
    THEN "InvalidCoinbase"
    ELSE "Ok"

(***************************************************************************)
(* Blocks.                                                                 *)
(***************************************************************************)
Block_hash(b) ==
    <<"blk", b.index, b.timestamp, b.prev_hash, b.target, b.transactions, b.nonce>>

\* the value of a 32-byte array as a big-endian unsigned integer (scaled)
HashNum(h) ==
    CASE h[1] = "num" -> h[2]
      [] h[1] = "genesis" -> 0
      [] h[1] = "blk" -> (h[2] + h[3] + Len(h[6]) + h[7]) % HashSpace
      [] OTHER -> HashSpace - 1

update_digest(b) == [b EXCEPT !.digest = Block_hash(b)]

Block_new(index, prev_hash, target, transactions, t) ==
    update_digest([digest |-> ZeroHash, index |-> index, timestamp |-> t,
                   prev_hash |-> prev_hash, target |-> target,
                   transactions |-> transactions, nonce |-> 0])

genesis ==
    [digest |-> GenesisDigest, index |-> 0, timestamp |-> GenesisTimestamp,
     prev_hash |-> ZeroHash, target |-> ChainTarget, transactions |-> <<>>,
     nonce |-> GenesisNonce]

\* update_nonce_and_timestamp reading the clock on every call
update_nonce_and_timestamp_AlwaysRefresh(b, t) ==
    update_digest([b EXCEPT !.nonce = @ + 1, !.timestamp = t])

update_nonce_and_timestamp(b, t) ==
    LET n == b.nonce + 1
    IN  update_digest([b EXCEPT !.nonce = n,
                                !.timestamp = IF n % NonceRefresh = 0 THEN t ELSE @])

add_tx(b, tx) == update_digest([b EXCEPT !.transactions = Append(@, tx)])

\* add_coinbase_tx pushing the coinbase at the end
add_coinbase_tx_AtEnd(b, pkhash, reward, t) ==
    update_digest([b EXCEPT !.transactions = Append(@, new_coinbase(pkhash, reward, t))])

add_coinbase_tx(b, pkhash, reward, t) ==
    update_digest([b EXCEPT !.transactions = <<new_coinbase(pkhash, reward, t)>> \o @])

\* hash_less_than_target that also holds for a hash equal to the target
hash_less_than_target_OrEqual(hash, target) == HashNum(hash) <= HashNum(target)

hash_less_than_target(hash, target) == HashNum(hash) < HashNum(target)

RECURSIVE MineLoop(_, _)
MineLoop(b, t) ==
    IF hash_less_than_target(b.digest, b.target) THEN b
    ELSE MineLoop(update_nonce_and_timestamp(b, t), t)

mine(b, miner_pkhash, block_reward, t) ==
    MineLoop(add_coinbase_tx(b, miner_pkhash, block_reward, t), t)

\* the callers' own search, `while block.hash() > block.target { block.nonce += 1 }`
\* followed by update_digest (test_invalid_timestamp, test_missing_coinbase_tx)
RECURSIVE NonceLoop(_)
NonceLoop(b) ==
    IF HashNum(Block_hash(b)) > HashNum(b.target) THEN NonceLoop([b EXCEPT !.nonce = @ + 1])
    ELSE b

search_nonce(b) == update_digest(NonceLoop(b))

\* the (txid, output) pairs of the inputs of transactions[from..], in order
RECURSIVE SpentFrom(_, _)
SpentFrom(txs, from) ==
    IF from > Len(txs) THEN <<>>
    ELSE [i \in DOMAIN txs[from].inputs |->
             <<txs[from].inputs[i].txid, txs[from].inputs[i].output>>]
         \o SpentFrom(txs, from + 1)

\* &self.transactions[1..] on an empty vector is out of range: the caller
\* guards the call with transactions # <<>> and reports the abort
get_spent_utxos(b) == SpentFrom(b.transactions, 2)

\* sort, dedup, compare the lengths
check_double_spend(b) ==
    LET spent == get_spent_utxos(b)
    IN  Cardinality({spent[i] : i \in DOMAIN spent}) = Len(spent)

validate_transactions(b, t) ==
    IF b.transactions = <<>> THEN "InvalidCoinbase"
    ELSE IF verify_coinbase(b.transactions[1]) # "Ok" THEN verify_coinbase(b.transactions[1])
    ELSE LET bad == {i \in 2..Len(b.transactions) : Transaction_verify(b.transactions[i], t) # "Ok"}
         IN  IF bad = {} THEN "Ok"
             ELSE Transaction_verify(b.transactions[CHOOSE i \in bad : \A j \in bad : i <= j], t)

(***************************************************************************)
(* Results: Ok, a BlockValidationError, or the abort of the call.          *)
(***************************************************************************)
Ok == [tag |-> "Ok", kind |-> "none"]
Err(e) == [tag |-> e, kind |-> "none"]
InvalidTransactions(k) == [tag |-> "InvalidTransactions", kind |-> k]
Panic == [tag |-> "panic", kind |-> "none"]
NoResult == [tag |-> "none", kind |-> "none"]

\* Block::validate rejecting also a timestamp equal to the current time
Block_validate_TimestampNotNow(b, t) ==
    IF HashNum(Block_hash(b)) >= HashNum(b.target) THEN Err("InvalidProofOfWork")
    ELSE IF b.digest # Block_hash(b) THEN Err("HashDigestMismatch")
    ELSE IF b.timestamp >= t THEN Err("TimestampInFuture")
    ELSE IF b.transactions = <<>> THEN Panic
    ELSE IF ~check_double_spend(b) THEN InvalidTransactions("DoubleSpend")
    ELSE IF validate_transactions(b, t) # "Ok"
         THEN InvalidTransactions(validate_transactions(b, t))
    ELSE Ok

Block_validate(b, t) ==
    IF HashNum(Block_hash(b)) >= HashNum(b.target) THEN Err("InvalidProofOfWork")
    ELSE IF b.digest # Block_hash(b) THEN Err("HashDigestMismatch")
    ELSE IF b.timestamp > t THEN Err("TimestampInFuture")
    ELSE IF b.transactions = <<>> THEN Panic
    ELSE IF ~check_double_spend(b) THEN InvalidTransactions("DoubleSpend")
    ELSE IF validate_transactions(b, t) # "Ok"
         THEN InvalidTransactions(validate_transactions(b, t))
    ELSE Ok

(***************************************************************************)
(* The UTXO set: a map from (txid, output index) to TxOutput.              *)
(***************************************************************************)
UTXOSet_new == <<>>

utxo_exists(u, txid, index) == <<txid, index>> \in DOMAIN u

get_utxo(u, txid, index) == u[<<txid, index>>]

UTXOSet_remove(u, txid, index) ==
    [k \in DOMAIN u \ {<<txid, index>>} |-> u[k]]

UTXOSet_insert(u, txid, index, output) ==
    (<<txid, index>> :> output) @@ u

RECURSIVE RemoveInputs(_, _, _)
RemoveInputs(u, inputs, i) ==
    IF i > Len(inputs) THEN u
    ELSE RemoveInputs(UTXOSet_remove(u, inputs[i].txid, inputs[i].output), inputs, i + 1)

\* output indices are zero-based
RECURSIVE InsertOutputs(_, _, _)
InsertOutputs(u, tx, i) ==
    IF i > Len(tx.outputs) THEN u
    ELSE InsertOutputs(UTXOSet_insert(u, tx.id, i - 1, tx.outputs[i]), tx, i + 1)

RECURSIVE ApplyFrom(_, _, _)
ApplyFrom(u, txs, i) ==
    IF i > Len(txs) THEN u
    ELSE ApplyFrom(InsertOutputs(RemoveInputs(u, txs[i].inputs, 1), txs[i], 1), txs, i + 1)

update_with_block(u, b) == ApplyFrom(u, b.transactions, 1)

(***************************************************************************)
(* Blockchain.                                                             *)
(***************************************************************************)
\* i64 addition, wrapping at the width of the type
WrapI64(x) == ((x + U64Modulus \div 2) % U64Modulus) - U64Modulus \div 2

RECURSIVE SumOutputsI64(_, _)
SumOutputsI64(outputs, i) ==
    IF i > Len(outputs) THEN 0
    ELSE WrapI64(AsI64(outputs[i].value) + SumOutputsI64(outputs, i + 1))

\* StatefulInputs without the comparison of the owner's pkhash
RECURSIVE StatefulInputs_NoOwnerCheck(_, _, _, _)
StatefulInputs_NoOwnerCheck(u, tx, i, inputs_total) ==
    IF i > Len(tx.inputs)
    THEN IF WrapI64(inputs_total - SumOutputsI64(tx.outputs, 1)) < 0 THEN "Overspend" ELSE "Ok"
    ELSE IF ~utxo_exists(u, tx.inputs[i].txid, tx.inputs[i].output) THEN "InvalidUTXO"
    ELSE StatefulInputs_NoOwnerCheck(u, tx, i + 1,
             WrapI64(inputs_total + AsI64(get_utxo(u, tx.inputs[i].txid, tx.inputs[i].output).value)))

\* the loop over the inputs of one transaction, from input i on, with the
\* running inputs_total; then the fee check
RECURSIVE StatefulInputs(_, _, _, _)
StatefulInputs(u, tx, i, inputs_total) ==
    IF i > Len(tx.inputs)
    THEN IF WrapI64(inputs_total - SumOutputsI64(tx.outputs, 1)) < 0 THEN "Overspend" ELSE "Ok"
    ELSE IF ~utxo_exists(u, tx.inputs[i].txid, tx.inputs[i].output) THEN "InvalidUTXO"
    ELSE IF Sha256(tx.inputs[i].pubkey) # get_utxo(u, tx.inputs[i].txid, tx.inputs[i].output).pkhash
         THEN "UnauthorizedSpend"
    ELSE StatefulInputs(u, tx, i + 1,
             WrapI64(inputs_total + AsI64(get_utxo(u, tx.inputs[i].txid, tx.inputs[i].output).value)))

RECURSIVE StatefulFrom(_, _, _)
StatefulFrom(u, txs, i) ==
    IF i > Len(txs) THEN "Ok"
    ELSE IF StatefulInputs(u, txs[i], 1, 0) # "Ok" THEN StatefulInputs(u, txs[i], 1, 0)
    ELSE StatefulFrom(u, txs, i + 1)

\* no check of the coinbase reward is made (blockchain.rs:52)
validate_transactions_stateful(u, b) == StatefulFrom(u, b.transactions, 2)

prev_hash(c) == IF c # <<>> THEN c[Len(c)].digest ELSE ZeroHash

\* validate_block with the index compared before prev_hash
validate_block_IndexFirst(c, u, b, t) ==
    IF Block_validate(b, t) # Ok THEN Block_validate(b, t)
    ELSE IF validate_transactions_stateful(u, b) # "Ok"
         THEN InvalidTransactions(validate_transactions_stateful(u, b))
    ELSE IF b.index # c[Len(c)].index + 1 THEN Err("InvalidIndex")
    ELSE IF b.prev_hash # prev_hash(c) THEN Err("InvalidPreviousHash")
    ELSE IF b.timestamp < c[Len(c)].timestamp THEN Err("InvalidTimestamp")
    ELSE Ok

\* validate_block rejecting only an index below tip.index + 1
validate_block_IndexAtLeast(c, u, b, t) ==
    IF Block_validate(b, t) # Ok THEN Block_validate(b, t)
    ELSE IF validate_transactions_stateful(u, b) # "Ok"
         THEN InvalidTransactions(validate_transactions_stateful(u, b))
    ELSE IF b.prev_hash # prev_hash(c) THEN Err("InvalidPreviousHash")
    ELSE IF b.index < c[Len(c)].index + 1 THEN Err("InvalidIndex")
    ELSE IF b.timestamp < c[Len(c)].timestamp THEN Err("InvalidTimestamp")
    ELSE Ok

\* validate_block rejecting also a timestamp equal to the tip's
validate_block_TimestampNotAfter(c, u, b, t) ==
    IF Block_validate(b, t) # Ok THEN Block_validate(b, t)
    ELSE IF validate_transactions_stateful(u, b) # "Ok"
         THEN InvalidTransactions(validate_transactions_stateful(u, b))
    ELSE IF b.prev_hash # prev_hash(c) THEN Err("InvalidPreviousHash")
    ELSE IF b.index # c[Len(c)].index + 1 THEN Err("InvalidIndex")
    ELSE IF b.timestamp <= c[Len(c)].timestamp THEN Err("InvalidTimestamp")
    ELSE Ok

\* validate_block without the comparison of prev_hash
validate_block_NoPrevHash(c, u, b, t) ==
    IF Block_validate(b, t) # Ok THEN Block_validate(b, t)
    ELSE IF validate_transactions_stateful(u, b) # "Ok"
         THEN InvalidTransactions(validate_transactions_stateful(u, b))
    ELSE IF b.index # c[Len(c)].index + 1 THEN Err("InvalidIndex")
    ELSE IF b.timestamp < c[Len(c)].timestamp THEN Err("InvalidTimestamp")
    ELSE Ok

validate_block(c, u, b, t) ==
    IF Block_validate(b, t) # Ok THEN Block_validate(b, t)
    ELSE IF validate_transactions_stateful(u, b) # "Ok"
         THEN InvalidTransactions(validate_transactions_stateful(u, b))
    ELSE IF b.prev_hash # prev_hash(c) THEN Err("InvalidPreviousHash")
    ELSE IF b.index # c[Len(c)].index + 1 THEN Err("InvalidIndex")
    ELSE IF b.timestamp < c[Len(c)].timestamp THEN Err("InvalidTimestamp")
    ELSE Ok

\* next_block giving the template the index of the tip
next_block_TipIndex(c, t) == Block_new(c[Len(c)].index, prev_hash(c), ChainTarget, <<>>, t)

next_block(c, t) == Block_new(Len(c), prev_hash(c), ChainTarget, <<>>, t)

\* add_block updating the UTXO set before it looks at the verdict
add_block_UpdateFirst(c, u, b, t) ==
    LET r == validate_block(c, u, b, t)
    IN  [chain |-> IF r = Ok THEN Append(c, b) ELSE c,
         utxos |-> update_with_block(u, b), result |-> r]

\* add_block pushing the block without folding it into the UTXO set
add_block_KeepUtxos(c, u, b, t) ==
    LET r == validate_block(c, u, b, t)
    IN  IF r # Ok THEN [chain |-> c, utxos |-> u, result |-> r]
        ELSE [chain |-> Append(c, b), utxos |-> u, result |-> Ok]

\* add_block: the state after the call, as [chain, utxos, result]
add_block(c, u, b, t) ==
    LET r == validate_block(c, u, b, t)
    IN  IF r # Ok THEN [chain |-> c, utxos |-> u, result |-> r]
        ELSE [chain |-> Append(c, b), utxos |-> update_with_block(u, b), result |-> Ok]

(***************************************************************************)
(* Inputs of the operations.                                               *)
(***************************************************************************)
\* u64::MAX
MaxValue == U64Modulus - 1

\* the hash of the compressed encoding of the public key of k
CompressedPkhash(k) == Sha256(to_encoded_point(k, TRUE))

\* beneficiary and reward of a mine call
MineInputs ==
    { <<Wallet_pkhash(1), get_block_reward>>,
      <<CompressedPkhash(1), get_block_reward>>,
      <<CompressedPkhash(1), 1000>> }

\* every outpoint consumed by a block of chain c
SpentOutpoints(c) ==
    UNION {{get_spent_utxos(c[n])[i] : i \in DOMAIN get_spent_utxos(c[n])} : n \in 2..Len(c)}

\* an outpoint that no transaction creates
BogusOutpoint == <<ZeroHash, 1>>

\* the outpoints a caller can name: unspent ones, spent ones, one that
\* never existed, and the outputs of the transactions already in its block
Outpoints ==
    DOMAIN utxos \cup SpentOutpoints(chain) \cup {BogusOutpoint}
    \cup UNION {{<<block[1].transactions[n].id, k - 1>> :
                    k \in DOMAIN block[1].transactions[n].outputs} :
                 n \in DOMAIN block[1].transactions}

\* the outpoints a transaction refers to: one, the same one twice, or two
\* unspent ones
InputLists ==
    {<<o>> : o \in Outpoints} \cup {<<o, o>> : o \in DOMAIN utxos \cup {BogusOutpoint}}
    \cup {<<p[1], p[2]>> : p \in {q \in (DOMAIN utxos) \X (DOMAIN utxos) : q[1] # q[2]}}

\* signer and outputs of a transaction
TxInputs ==
    { <<1, <<TxOutput_new(100, ZeroHash), TxOutput_new(200, Wallet_pkhash(1))>> >>,
      <<1, <<TxOutput_new(get_block_reward, CompressedPkhash(1))>> >>,
      <<1, <<TxOutput_new(get_block_reward + 1, CompressedPkhash(1))>> >>,
      <<1, <<TxOutput_new(MaxValue, ZeroHash)>> >>,
      <<2, <<TxOutput_new(100, ZeroHash), TxOutput_new(200, Wallet_pkhash(2))>> >> }

\* beneficiary and reward of a direct add_coinbase_tx call
CoinbaseInputs ==
    { <<ZeroHash, get_block_reward>>, <<CompressedPkhash(1), get_block_reward>> }

\* transactions put into a block as Transaction::new built them, unsigned,
\* and a transaction without inputs signed by a wallet
RawTransactions(t) ==
    { Transaction_new(<<>>, <<>>, t),
      Transaction_new(<<>>, <<TxOutput_new(100, ZeroHash)>>, t),
      Transaction_new(<<TxInput_new_unsigned(ZeroHash, 1)>>, <<TxOutput_new(100, ZeroHash)>>, t),
      Transaction_sign(Transaction_new(<<>>, <<TxOutput_new(100, ZeroHash),
                                                TxOutput_new(200, Wallet_pkhash(1))>>, t), 1) }

\* Transaction::new over unsigned inputs, then Wallet::sign_transaction
SignedTransaction(outpoints, outputs, k, t) ==
    Transaction_sign(
        Transaction_new([i \in DOMAIN outpoints |->
                            TxInput_new_unsigned(outpoints[i][1], outpoints[i][2])],
                        outputs, t),
        k)

(***************************************************************************)
(* The state machine.  block is <<>> or <<b>>: the block a caller is       *)
(* building; pc is the caller's position.  result, submitted and before    *)
(* record the last add_block call and are cleared by every other step.     *)
(* probe is the transaction a test builds, signs, alters and verifies on   *)
(* its own, outside any block.                                             *)
(***************************************************************************)
\* no transaction is under test
NoProbe == <<>>

Init ==
    /\ chain = <<genesis>>
    /\ utxos = UTXOSet_new
    /\ now = GenesisTimestamp
    /\ block = <<>>
    /\ pc = "idle"
    /\ txCount = 0
    /\ result = NoResult
    /\ submitted = <<>>
    /\ before = <<>>
    /\ probe = NoProbe

ClearHistory ==
    /\ result' = NoResult
    /\ submitted' = <<>>
    /\ before' = <<>>

\* the clock advances between two blocks
Tick ==
    /\ pc = "idle"
    /\ now < GenesisTimestamp + MaxTicks
    /\ now' = now + 1
    /\ ClearHistory
    /\ UNCHANGED <<probe, chain, utxos, block, pc, txCount>>

NextBlockUpTo(maxChain) ==
    /\ pc = "idle"
    /\ Len(chain) < maxChain
    /\ block' = <<next_block(chain, now)>>
    /\ pc' = "building"
    /\ ClearHistory
    /\ UNCHANGED <<probe, chain, utxos, now, txCount>>

NextBlock == NextBlockUpTo(MaxChain)

\* the header fields are those next_block gave
HeaderUntouched ==
    /\ block[1].index = Len(chain)
    /\ block[1].prev_hash = prev_hash(chain)
    /\ block[1].timestamp \in GenesisTimestamp..now

Fresh == pc = "building" /\ block[1].transactions = <<>>

\* block.index = 2 on a fresh template (test_invalid_index)
SetIndex ==
    /\ Fresh
    /\ block[1].index = Len(chain)
    /\ block' = <<[block[1] EXCEPT !.index = @ + 1]>>
    /\ ClearHistory
    /\ UNCHANGED <<probe, chain, utxos, now, pc, txCount>>

\* block.prev_hash = <some other value> (test_invalid_prev_hash)
SetPrevHash ==
    /\ Fresh
    /\ block[1].prev_hash = prev_hash(chain)
    /\ block' = <<[block[1] EXCEPT !.prev_hash = ZeroHash]>>
    /\ ClearHistory
    /\ UNCHANGED <<probe, chain, utxos, now, pc, txCount>>

\* block.timestamp = 1000 (test_invalid_timestamp) or now + 1000 (block.rs:258)
SetTimestamp ==
    /\ Fresh
    /\ block[1].timestamp \in GenesisTimestamp..now
    /\ \E ts \in {1000, now + 1000} : block' = <<[block[1] EXCEPT !.timestamp = ts]>>
    /\ ClearHistory
    /\ UNCHANGED <<probe, chain, utxos, now, pc, txCount>>

\* block.add_tx(tx) for a transaction built and signed at this moment
AddTxFrom(inputLists, txInputs) ==
    /\ pc = "building"
    /\ txCount < MaxTxs
    /\ Len(block[1].transactions) < MaxBlockTxs
    /\ block[1].transactions # <<>> => HeaderUntouched
    /\ \E ins \in inputLists : \E ko \in txInputs :
          block' = <<add_tx(block[1], SignedTransaction(ins, ko[2], ko[1], now))>>
    /\ txCount' = txCount + 1
    /\ ClearHistory
    /\ UNCHANGED <<probe, chain, utxos, now, pc>>

AddTx == AddTxFrom(InputLists, TxInputs)

\* block.add_tx(tx) for a transaction that no wallet completed
\* (block.rs:287, test_invalid_transactions)
AddRawTx ==
    /\ Fresh
    /\ HeaderUntouched
    /\ \E tx \in RawTransactions(now) : block' = <<add_tx(block[1], tx)>>
    /\ ClearHistory
    /\ UNCHANGED <<probe, chain, utxos, now, pc, txCount>>

\* block.add_coinbase_tx(pkhash, reward) called by the caller itself
\* (test_invalid_timestamp, test_duplicate_coinbase_tx)
AddCoinbaseTx ==
    /\ Fresh
    /\ \E pr \in CoinbaseInputs : block' = <<add_coinbase_tx(block[1], pr[1], pr[2], now)>>
    /\ ClearHistory
    /\ UNCHANGED <<probe, chain, utxos, now, pc, txCount>>

\* the nonce search written out by the caller, then update_digest
SearchNonce ==
    /\ pc = "building"
    /\ block' = <<search_nonce(block[1])>>
    /\ pc' = "mined"
    /\ ClearHistory
    /\ UNCHANGED <<probe, chain, utxos, now, txCount>>

MineFrom(mineInputs) ==
    /\ pc = "building"
    /\ \E pr \in mineInputs : block' = <<mine(block[1], pr[1], pr[2], now)>>
    /\ pc' = "mined"
    /\ ClearHistory
    /\ UNCHANGED <<probe, chain, utxos, now, txCount>>

Mine == MineFrom(MineInputs)

\* block.digest = [0; 32] after mining (test_invalid_digest)
SetDigest ==
    /\ pc = "mined"
    /\ block[1].digest # ZeroHash
    /\ block' = <<[block[1] EXCEPT !.digest = ZeroHash]>>
    /\ ClearHistory
    /\ UNCHANGED <<probe, chain, utxos, now, pc, txCount>>

AddBlock ==
    /\ pc \in {"building", "mined"}
    /\ LET post == add_block(chain, utxos, block[1], now)
       IN  /\ chain' = post.chain
           /\ utxos' = post.utxos
           /\ result' = post.result
    /\ submitted' = block
    /\ before' = <<[chain |-> chain, utxos |-> utxos]>>
    /\ block' = <<>>
    /\ pc' = "idle"
    /\ UNCHANGED <<probe, now, txCount>>

Next ==
    \/ Tick
    \/ NextBlock
    \/ SetIndex
    \/ SetPrevHash
    \/ SetTimestamp
    \/ AddTx
    \/ AddRawTx
    \/ AddCoinbaseTx
    \/ Mine
    \/ SearchNonce
    \/ SetDigest
    \/ AddBlock

Spec == Init /\ [][Next]_vars

(***************************************************************************)
(* API-only use, as in main.rs: next_block, add_tx, mine, add_block, with  *)
(* no write to a field of the block, over a longer chain.                  *)
(***************************************************************************)
\* the clock advances while a block is being built or mined
TickWhileBuilding ==
    /\ pc \in {"building", "mined"}
    /\ now < GenesisTimestamp + MaxTicks
    /\ now' = now + 1
    /\ ClearHistory
    /\ UNCHANGED <<probe, chain, utxos, block, pc, txCount>>

NextBlockApi == NextBlockUpTo(MaxChainApi)

AddTxApi ==
    AddTxFrom({<<o>> : o \in DOMAIN utxos \cup SpentOutpoints(chain)},
              { <<1, <<TxOutput_new(get_block_reward, CompressedPkhash(1))>> >>,
                <<1, <<TxOutput_new(100, ZeroHash), TxOutput_new(200, Wallet_pkhash(1))>> >> })

MineApi ==
    MineFrom({ <<CompressedPkhash(1), get_block_reward>>,
               <<Wallet_pkhash(1), get_block_reward>> })

NextApi ==
    \/ Tick
    \/ TickWhileBuilding
    \/ NextBlockApi
    \/ AddTxApi
    \/ MineApi
    \/ AddBlock

SpecApi == Init /\ [][NextApi]_vars

(***************************************************************************)
(* A caller that sets the terms of its block itself: the target the block  *)
(* carries, the reward its coinbase pays, the timestamp of its coinbase.   *)
(***************************************************************************)
\* block.target = <a larger value>: target is a public field of Block
SetTarget ==
    /\ Fresh
    /\ block[1].target = ChainTarget
    /\ block' = <<[block[1] EXCEPT !.target = <<"num", HashSpace - 1>>]>>
    /\ ClearHistory
    /\ UNCHANGED <<probe, chain, utxos, now, pc, txCount>>

\* a coinbase built where the clock is ahead, as a block decoded by
\* Block::from_bincode can hold it: a later timestamp and the id that goes
\* with it
AddPostdatedCoinbase ==
    /\ Fresh
    /\ block' = <<add_coinbase_tx(block[1], Wallet_pkhash(1), get_block_reward, now + 1000)>>
    /\ ClearHistory
    /\ UNCHANGED <<probe, chain, utxos, now, pc, txCount>>

NextTarget ==
    \/ Tick
    \/ NextBlock
    \/ SetTarget
    \/ AddPostdatedCoinbase
    \/ SearchNonce
    \/ MineFrom(MineInputs \cup {<<Wallet_pkhash(1), 2 * get_block_reward>>})
    \/ AddBlock

SpecTarget == Init /\ [][NextTarget]_vars

(***************************************************************************)
(* A transaction on its own, as the tests of transaction.rs use it:        *)
(* Transaction::new, Wallet::sign_transaction, a write to a field, verify. *)
(* probe.signed is the transaction as sign left it, probe.out the result   *)
(* of verify.                                                              *)
(***************************************************************************)
ProbeOutpoints == {<<ZeroHash, 0>>, <<ZeroHash, 1>>}

ProbeInputLists ==
    UNION {[1..n -> ProbeOutpoints] : n \in 0..MaxInputs}

ProbeOutputs ==
    {TxOutput_new(v, h) : v \in {0, 50}, h \in {ZeroHash, <<"num", 1>>}}

ProbeOutputLists ==
    UNION {[1..n -> ProbeOutputs] : n \in 0..MaxOutputs}

\* Transaction::new(inputs, outputs), and tx.timestamp += 100
\* (test_fails_if_invalid_timestamp)
InitProbe ==
    /\ chain = <<genesis>>
    /\ utxos = UTXOSet_new
    /\ now = GenesisTimestamp
    /\ block = <<>>
    /\ pc = "idle"
    /\ txCount = 0
    /\ result = NoResult
    /\ submitted = <<>>
    /\ before = <<>>
    /\ \E ins \in ProbeInputLists : \E outs \in ProbeOutputLists : \E ts \in {now, now + 100} :
         probe = <<[tx |-> Transaction_new([i \in DOMAIN ins |->
                                              TxInput_new_unsigned(ins[i][1], ins[i][2])],
                                           outs, ts),
                    signed |-> <<>>, writes |-> 0, out |-> "none"]>>

Probed == probe[1].tx

SetProbe(tx) == probe' = <<[probe[1] EXCEPT !.tx = tx, !.writes = @ + 1]>>

Alterable ==
    /\ probe[1].signed # <<>>
    /\ probe[1].out = "none"
    /\ probe[1].writes < MaxWrites

\* wallet.sign_transaction(&mut tx)
SignProbe ==
    /\ probe[1].signed = <<>>
    /\ probe[1].out = "none"
    /\ \E k \in Keys :
         probe' = <<[probe[1] EXCEPT !.tx = Transaction_sign(@, k),
                                     !.signed = <<Transaction_sign(probe[1].tx, k)>>]>>
    /\ UNCHANGED <<chain, utxos, now, block, pc, txCount, result, submitted, before>>

\* tx.inputs[i].signature[0] ^= 0xFF: other bytes that still parse as a
\* signature (test_fails_if_signature_tampered)
AlterSignature ==
    /\ Alterable
    /\ \E i \in DOMAIN Probed.inputs :
         /\ Probed.inputs[i].signature[1] = "sig"
         /\ Probed.inputs[i].signature[3][1] = "sighash"
         /\ SetProbe([Probed EXCEPT !.inputs[i].signature[3] = <<"altered", @>>])
    /\ UNCHANGED <<chain, utxos, now, block, pc, txCount, result, submitted, before>>

\* tx.inputs[i].signature = [0; 64]: bytes that are no signature
ZeroSignatureOf ==
    /\ Alterable
    /\ \E i \in DOMAIN Probed.inputs :
         /\ Probed.inputs[i].signature # ZeroSignature
         /\ SetProbe([Probed EXCEPT !.inputs[i].signature = ZeroSignature])
    /\ UNCHANGED <<chain, utxos, now, block, pc, txCount, result, submitted, before>>

\* tx.inputs[i].pubkey[1] ^= 0xAA: bytes that are no curve point, or the
\* point of another key (test_fails_if_pubkey_tampered)
AlterPubkey ==
    /\ Alterable
    /\ \E i \in DOMAIN Probed.inputs :
         \E pk \in {ZeroPubkey} \cup {to_encoded_point(k, TRUE) : k \in Keys} :
           /\ Probed.inputs[i].pubkey # pk
           /\ SetProbe([Probed EXCEPT !.inputs[i].pubkey = pk])
    /\ UNCHANGED <<chain, utxos, now, block, pc, txCount, result, submitted, before>>

\* tx.id[0] ^= 0xFF (test_fails_if_invalid_id)
AlterId ==
    /\ Alterable
    /\ Probed.id[1] # "altered"
    /\ SetProbe([Probed EXCEPT !.id = <<"altered", @>>])
    /\ UNCHANGED <<chain, utxos, now, block, pc, txCount, result, submitted, before>>

\* tx.verify()
VerifyProbe ==
    /\ probe[1].out = "none"
    /\ probe' = <<[probe[1] EXCEPT !.out = Transaction_verify(Probed, now)]>>
    /\ UNCHANGED <<chain, utxos, now, block, pc, txCount, result, submitted, before>>

NextProbe ==
    \/ SignProbe
    \/ AlterSignature
    \/ ZeroSignatureOf
    \/ AlterPubkey
    \/ AlterId
    \/ VerifyProbe

SpecProbe == InitProbe /\ [][NextProbe]_vars

(***************************************************************************)
(* The proof-of-work comparison on byte arrays.  A 32-byte value is scaled *)
(* to an array of HashBytes bytes.  probe holds the pair under comparison  *)
(* and, once a test of the code ran on it, <<its answer>>.                 *)
(***************************************************************************)
ByteArrays == [1..HashBytes -> {0, 1, 127, 128, 255}]

\* the bytes read with the least significant byte first
RECURSIVE from_bytes_le(_)
from_bytes_le(bytes) ==
    IF bytes = <<>> THEN 0
    ELSE bytes[1] + 256 * from_bytes_le(Tail(bytes))

\* BigUint::from_bytes_be
RECURSIVE from_bytes_be(_)
from_bytes_be(bytes) ==
    IF bytes = <<>> THEN 0
    ELSE from_bytes_be(SubSeq(bytes, 1, Len(bytes) - 1)) * 256 + bytes[Len(bytes)]

\* hash_less_than_target on the bytes themselves
hash_less_than_target_be(hash, target) == from_bytes_be(hash) < from_bytes_be(target)

\* the ordering of [u8; N]: the first differing byte decides
RECURSIVE ArrayCmp(_, _, _)
ArrayCmp(a, b, i) ==
    IF i > Len(a) THEN "Equal"
    ELSE IF a[i] < b[i] THEN "Less"
    ELSE IF a[i] > b[i] THEN "Greater"
    ELSE ArrayCmp(a, b, i + 1)

\* self.hash() >= self.target
HashNotBelowTarget(hash, target) == ArrayCmp(hash, target, 1) # "Less"

InitPow ==
    /\ chain = <<genesis>>
    /\ utxos = UTXOSet_new
    /\ now = GenesisTimestamp
    /\ block = <<>>
    /\ pc = "idle"
    /\ txCount = 0
    /\ result = NoResult
    /\ submitted = <<>>
    /\ before = <<>>
    /\ \E h \in ByteArrays : \E t \in ByteArrays :
         probe = <<[hash |-> h, target |-> t, less |-> <<>>, rejected |-> <<>>]>>

\* the test of the mining loop
CallHashLessThanTarget ==
    /\ probe[1].less = <<>>
    /\ probe' = <<[probe[1] EXCEPT !.less = <<hash_less_than_target_be(probe[1].hash, probe[1].target)>>]>>
    /\ UNCHANGED <<chain, utxos, now, block, pc, txCount, result, submitted, before>>

\* the first test of Block::validate
CallValidateProofOfWork ==
    /\ probe[1].rejected = <<>>
    /\ probe' = <<[probe[1] EXCEPT !.rejected = <<HashNotBelowTarget(probe[1].hash, probe[1].target)>>]>>
    /\ UNCHANGED <<chain, utxos, now, block, pc, txCount, result, submitted, before>>

NextPow ==
    \/ CallHashLessThanTarget
    \/ CallValidateProofOfWork

SpecPow == InitPow /\ [][NextPow]_vars

(***************************************************************************)
(* A block on its own, as test_digest_update uses it: Block::new, then     *)
(* add_tx, add_coinbase_tx and update_nonce_and_timestamp in any order     *)
(* while the clock runs.  probe records the last call: its name, the block *)
(* before it, its arguments and the clock at the call.                     *)
(***************************************************************************)
InitBlock ==
    /\ chain = <<genesis>>
    /\ utxos = UTXOSet_new
    /\ now = GenesisTimestamp
    /\ pc = "building"
    /\ txCount = 0
    /\ result = NoResult
    /\ submitted = <<>>
    /\ before = <<>>
    /\ \E txs \in {<<>>, <<Transaction_new(<<>>, <<TxOutput_new(100, ZeroHash)>>, now)>>} :
         /\ block = <<Block_new(0, ZeroHash, ChainTarget, txs, now)>>
         /\ probe = <<[op |-> "new", pre |-> <<>>, args |-> <<txs>>, at |-> now]>>

\* block.add_tx(tx)
CallAddTx ==
    /\ Len(block[1].transactions) < MaxBlockTxs
    /\ \E tx \in { Transaction_new(<<TxInput_new_unsigned(ZeroHash, 1)>>,
                                   <<TxOutput_new(100, ZeroHash)>>, now),
                   SignedTransaction(<<BogusOutpoint>>, <<TxOutput_new(100, ZeroHash)>>, 1, now) } :
         /\ block' = <<add_tx(block[1], tx)>>
         /\ probe' = <<[op |-> "add_tx", pre |-> block, args |-> <<tx>>, at |-> now]>>
    /\ UNCHANGED <<chain, utxos, now, pc, txCount, result, submitted, before>>

\* block.add_coinbase_tx(pkhash, reward)
CallAddCoinbaseTx ==
    /\ Len(block[1].transactions) < MaxBlockTxs
    /\ \E pr \in CoinbaseInputs :
         /\ block' = <<add_coinbase_tx(block[1], pr[1], pr[2], now)>>
         /\ probe' = <<[op |-> "add_coinbase_tx", pre |-> block, args |-> pr, at |-> now]>>
    /\ UNCHANGED <<chain, utxos, now, pc, txCount, result, submitted, before>>

\* block.update_nonce_and_timestamp()
CallUpdateNonceAndTimestamp ==
    /\ block[1].nonce < MaxNonce
    /\ block' = <<update_nonce_and_timestamp(block[1], now)>>
    /\ probe' = <<[op |-> "update_nonce_and_timestamp", pre |-> block, args |-> <<>>, at |-> now]>>
    /\ UNCHANGED <<chain, utxos, now, pc, txCount, result, submitted, before>>

NextBlockCalls ==
    \/ TickWhileBuilding
    \/ CallAddTx
    \/ CallAddCoinbaseTx
    \/ CallUpdateNonceAndTimestamp

SpecBlock == InitBlock /\ [][NextBlockCalls]_vars

(***************************************************************************)
(* The last add_block call, seen from the state after it.                  *)
(***************************************************************************)
Called == result # NoResult
Returned == Called /\ result # Panic
Submitted == submitted[1]
PreChain == before[1].chain
PreUtxos == before[1].utxos
Tip == PreChain[Len(PreChain)]

\* errors.rs: the variants of TransactionError
TransactionErrorKinds ==
    {"InvalidPublicKey", "InvalidSignature", "SignatureVerificationFailed", "InvalidID",
     "InvalidTimestamp", "ZeroValueOutput", "DuplicateInput", "DuplicateOutput",
     "EmptyInputs", "EmptyOutputs", "InvalidCoinbase", "InvalidUTXO", "Overspend",
     "UnauthorizedSpend"}

Outpoint(input) == <<input.txid, input.output>>

InputExists(u, input) == Outpoint(input) \in DOMAIN u

InputAuthorized(u, input) ==
    /\ InputExists(u, input)
    /\ u[Outpoint(input)].pkhash = Sha256(input.pubkey)

RECURSIVE SumValues(_, _)
SumValues(outputs, i) ==
    IF i > Len(outputs) THEN 0 ELSE outputs[i].value + SumValues(outputs, i + 1)

\* the sum of the values of the outputs the inputs of tx refer to
InputsValue(u, tx) ==
    SumValues([i \in DOMAIN tx.inputs |-> u[Outpoint(tx.inputs[i])]], 1)

\* the block passed Block::validate, and stateful validation found nothing
\* wrong before it reached input j of transaction i
ReachesInput(i, j) ==
    /\ Block_validate(Submitted, now) = Ok
    /\ \A n \in 2..(i - 1) : StatefulInputs(PreUtxos, Submitted.transactions[n], 1, 0) = "Ok"
    /\ \A m \in 1..(j - 1) : InputAuthorized(PreUtxos, Submitted.transactions[i].inputs[m])

\* the header checks of validate_block pass
HeaderLinksToTip ==
    /\ Submitted.prev_hash = Tip.digest
    /\ Submitted.index = Tip.index + 1
    /\ Submitted.timestamp >= Tip.timestamp

\* two inputs of transactions[2..] refer to the same (txid, output)
DuplicateOutpoint(b) ==
    \E n1 \in 2..Len(b.transactions) : \E n2 \in 2..Len(b.transactions) :
      \E m1 \in DOMAIN b.transactions[n1].inputs : \E m2 \in DOMAIN b.transactions[n2].inputs :
        /\ <<n1, m1>> # <<n2, m2>>
        /\ Outpoint(b.transactions[n1].inputs[m1]) = Outpoint(b.transactions[n2].inputs[m2])

\* the keys a block consumes and the keys it creates
InputKeys(b) ==
    UNION {{Outpoint(b.transactions[n].inputs[m]) : m \in DOMAIN b.transactions[n].inputs} :
              n \in DOMAIN b.transactions}

OutputKeys(b) ==
    UNION {{<<b.transactions[n].id, k - 1>> : k \in DOMAIN b.transactions[n].outputs} :
              n \in DOMAIN b.transactions}

(***************************************************************************)
(* C1: when add_block returns an error, the chain and the UTXO set are     *)
(* what they were before the call.                                         *)
(***************************************************************************)
C1_FailedAddBlockChangesNothing ==
    (Returned /\ result # Ok) => (chain = PreChain /\ utxos = PreUtxos)

\* a mined block with a skipped index is rejected while the UTXO set holds entries
C1_Witness ==
    /\ Called
    /\ result = Err("InvalidIndex")
    /\ DOMAIN PreUtxos # {}
    /\ Submitted.transactions # <<>>

(***************************************************************************)
(* C2: once an accepted block has spent an outpoint, a later block that    *)
(* passes Block::validate and whose first non-coinbase input refers to     *)
(* that outpoint is rejected with InvalidTransactions(InvalidUTXO).        *)
(***************************************************************************)
C2_SpentOutpointIsRejected ==
    ( /\ Called
      /\ Block_validate(Submitted, now) = Ok
      /\ Len(Submitted.transactions) >= 2
      /\ Outpoint(Submitted.transactions[2].inputs[1]) \in SpentOutpoints(PreChain) )
    => result = InvalidTransactions("InvalidUTXO")

(***************************************************************************)
(* C3: no block whose coinbase output differs from get_block_reward() is   *)
(* in the chain, and an otherwise valid block with such a coinbase is      *)
(* rejected with InvalidTransactions(InvalidCoinbase).                     *)
(***************************************************************************)
C3_CoinbaseValueIsTheReward ==
    /\ \A n \in 2..Len(chain) :
          chain[n].transactions[1].outputs[1].value = get_block_reward
    /\ ( /\ Called
         /\ Block_validate(Submitted, now) = Ok
         /\ validate_transactions_stateful(PreUtxos, Submitted) = "Ok"
         /\ HeaderLinksToTip
         /\ Submitted.transactions[1].outputs[1].value # get_block_reward )
       => result = InvalidTransactions("InvalidCoinbase")

(***************************************************************************)
(* C4: a block that extends the tip and holds, after its coinbase, one     *)
(* valid transaction signed by wallet k, whose single input refers to an   *)
(* unspent coinbase output paid to the pkhash of wallet k and whose        *)
(* outputs sum to no more than that output, is accepted, and every output  *)
(* of the transaction is then in the UTXO set.                             *)
(***************************************************************************)
C4_OwnerCanSpend ==
    \A k \in Keys :
      ( /\ Called
        /\ Block_validate(Submitted, now) = Ok
        /\ HeaderLinksToTip
        /\ Len(Submitted.transactions) = 2
        /\ Len(Submitted.transactions[2].inputs) = 1
        /\ Submitted.transactions[2].inputs[1].pubkey = to_encoded_point(k, TRUE)
        /\ InputExists(PreUtxos, Submitted.transactions[2].inputs[1])
        /\ \E n \in 2..Len(PreChain) :
              Outpoint(Submitted.transactions[2].inputs[1]) = <<PreChain[n].transactions[1].id, 0>>
        /\ PreUtxos[Outpoint(Submitted.transactions[2].inputs[1])].pkhash = Wallet_pkhash(k)
        /\ SumValues(Submitted.transactions[2].outputs, 1)
              <= PreUtxos[Outpoint(Submitted.transactions[2].inputs[1])].value )
      => /\ result = Ok
         /\ \A o \in DOMAIN Submitted.transactions[2].outputs :
               <<Submitted.transactions[2].id, o - 1>> \in DOMAIN utxos

(***************************************************************************)
(* C5: when stateful validation reaches an input that refers to an         *)
(* existing UTXO whose pkhash is not the hash of the input's pubkey, the   *)
(* block is rejected with InvalidTransactions(UnauthorizedSpend), though   *)
(* the signature of the input verifies.                                    *)
(***************************************************************************)
C5_UnauthorizedSpendRejected ==
    Called =>
      \A i \in 2..Len(Submitted.transactions) :
        \A j \in DOMAIN Submitted.transactions[i].inputs :
          ( /\ ReachesInput(i, j)
            /\ InputExists(PreUtxos, Submitted.transactions[i].inputs[j])
            /\ PreUtxos[Outpoint(Submitted.transactions[i].inputs[j])].pkhash
                  # Sha256(Submitted.transactions[i].inputs[j].pubkey) )
          => result = InvalidTransactions("UnauthorizedSpend")

\* a correctly signed input spends an output of another owner
C5_Witness ==
    /\ Called
    /\ result = InvalidTransactions("UnauthorizedSpend")
    /\ \E i \in 2..Len(Submitted.transactions) :
         \E j \in DOMAIN Submitted.transactions[i].inputs :
           /\ ReachesInput(i, j)
           /\ TxInput_verify_signature(Submitted.transactions[i].inputs[j]) = "Ok"
           /\ InputExists(PreUtxos, Submitted.transactions[i].inputs[j])
           /\ ~InputAuthorized(PreUtxos, Submitted.transactions[i].inputs[j])

(***************************************************************************)
(* C6: when stateful validation reaches the fee check of a transaction     *)
(* (all its inputs exist and are authorized), the block is rejected with   *)
(* InvalidTransactions(Overspend) if the outputs sum to more than the      *)
(* referenced inputs, and is not rejected for overspend if the sums are    *)
(* equal.                                                                  *)
(***************************************************************************)
C6_OverspendRejected ==
    Called =>
      \A i \in 2..Len(Submitted.transactions) :
        ReachesInput(i, Len(Submitted.transactions[i].inputs) + 1) =>
          /\ SumValues(Submitted.transactions[i].outputs, 1)
                > InputsValue(PreUtxos, Submitted.transactions[i])
             => result = InvalidTransactions("Overspend")
          /\ SumValues(Submitted.transactions[i].outputs, 1)
                = InputsValue(PreUtxos, Submitted.transactions[i])
             => result # InvalidTransactions("Overspend")

(***************************************************************************)
(* C7: when add_block succeeds, the chain is the old chain with the block  *)
(* appended; every key consumed by an input of the block is absent from    *)
(* the UTXO set, every key (tx.id, k) of an output of the block maps to    *)
(* that output, and every other key is as before.                          *)
(***************************************************************************)
C7_AcceptedBlockEffect ==
    (Called /\ result = Ok) =>
      /\ chain = Append(PreChain, Submitted)
      /\ \A key \in InputKeys(Submitted) : key \notin DOMAIN utxos
      /\ \A n \in DOMAIN Submitted.transactions :
           \A k \in DOMAIN Submitted.transactions[n].outputs :
             /\ <<Submitted.transactions[n].id, k - 1>> \in DOMAIN utxos
             /\ utxos[<<Submitted.transactions[n].id, k - 1>>] = Submitted.transactions[n].outputs[k]
      /\ \A key \in (DOMAIN utxos \cup DOMAIN PreUtxos)
                       \ (InputKeys(Submitted) \cup OutputKeys(Submitted)) :
           /\ key \in DOMAIN utxos
           /\ key \in DOMAIN PreUtxos
           /\ utxos[key] = PreUtxos[key]

(***************************************************************************)
(* C8: a block with valid proof-of-work, digest and timestamp in which two *)
(* inputs of non-coinbase transactions refer to the same (txid, output) is *)
(* rejected with InvalidTransactions(k), k a variant of TransactionError.  *)
(***************************************************************************)
C8_DuplicateOutpointKindIsListed ==
    ( /\ Called
      /\ HashNum(Block_hash(Submitted)) < HashNum(Submitted.target)
      /\ Submitted.digest = Block_hash(Submitted)
      /\ Submitted.timestamp <= now
      /\ DuplicateOutpoint(Submitted) )
    => /\ result.tag = "InvalidTransactions"
       /\ result.kind \in TransactionErrorKinds

(***************************************************************************)
(* C9: validate_block reports the first failure in the order               *)
(* Block::validate, stateful transaction validation, prev_hash, index,     *)
(* timestamp.                                                              *)
(***************************************************************************)
C9_ValidateBlockOrder ==
    Called =>
      LET structural == Block_validate(Submitted, now)
          stateful == validate_transactions_stateful(PreUtxos, Submitted)
      IN  IF structural # Ok THEN result = structural
          ELSE IF stateful # "Ok" THEN result = InvalidTransactions(stateful)
          ELSE IF Submitted.prev_hash # Tip.digest THEN result = Err("InvalidPreviousHash")
          ELSE IF Submitted.index # Tip.index + 1 THEN result = Err("InvalidIndex")
          ELSE IF Submitted.timestamp < Tip.timestamp THEN result = Err("InvalidTimestamp")
          ELSE result = Ok

\* a missing UTXO together with a wrong prev_hash, or a wrong prev_hash
\* together with a wrong index
C9_Witness ==
    /\ Called
    /\ \/ /\ result = InvalidTransactions("InvalidUTXO")
          /\ Submitted.prev_hash # Tip.digest
       \/ /\ result = Err("InvalidPreviousHash")
          /\ Submitted.index # Tip.index + 1
          /\ Submitted.timestamp < Tip.timestamp

(***************************************************************************)
(* C10: a block that passes Block::validate and stateful validation is     *)
(* rejected with InvalidPreviousHash when its prev_hash is not the tip's   *)
(* digest, and with InvalidIndex when its prev_hash is right and its index *)
(* is not tip.index + 1.                                                   *)
(***************************************************************************)
C10_LinkageRejections ==
    ( /\ Called
      /\ Block_validate(Submitted, now) = Ok
      /\ validate_transactions_stateful(PreUtxos, Submitted) = "Ok" )
    => /\ Submitted.prev_hash # Tip.digest => result = Err("InvalidPreviousHash")
       /\ (Submitted.prev_hash = Tip.digest /\ Submitted.index # Tip.index + 1)
             => result = Err("InvalidIndex")

\* index 2 on a fresh chain
C10_Witness ==
    /\ Called
    /\ PreChain = <<genesis>>
    /\ Submitted.prev_hash = Tip.digest
    /\ Submitted.index = 2
    /\ result = Err("InvalidIndex")

(***************************************************************************)
(* C11: a block that passes Block::validate, stateful validation, the      *)
(* prev_hash check and the index check is rejected with InvalidTimestamp   *)
(* when its timestamp is below the tip's, and is not rejected for its      *)
(* timestamp when the two are equal.                                       *)
(***************************************************************************)
C11_TimestampBeforeTip ==
    ( /\ Called
      /\ Block_validate(Submitted, now) = Ok
      /\ validate_transactions_stateful(PreUtxos, Submitted) = "Ok"
      /\ Submitted.prev_hash = Tip.digest
      /\ Submitted.index = Tip.index + 1 )
    => /\ Submitted.timestamp < Tip.timestamp => result = Err("InvalidTimestamp")
       /\ Submitted.timestamp = Tip.timestamp => result = Ok

\* test_invalid_timestamp: timestamp 1000 on the second block
C11_Witness ==
    /\ Called
    /\ Len(PreChain) = 2
    /\ Block_validate(Submitted, now) = Ok
    /\ Submitted.prev_hash = Tip.digest
    /\ Submitted.index = Tip.index + 1
    /\ Submitted.timestamp < Tip.timestamp
    /\ result = Err("InvalidTimestamp")

(***************************************************************************)
(* C12: Block::validate returns the first failure in the order proof of    *)
(* work, digest equality, timestamp in the future, intra-block double      *)
(* spend, transaction validation: add_block, which calls it first, returns *)
(* InvalidProofOfWork when hash() is not below target, else                *)
(* HashDigestMismatch when the stored digest differs, else                 *)
(* TimestampInFuture, else InvalidTransactions for a duplicated outpoint,  *)
(* else InvalidTransactions(k) for the error k of validate_transactions.   *)
(***************************************************************************)
C12_BlockValidateOrder ==
    Called =>
      IF HashNum(Block_hash(Submitted)) >= HashNum(Submitted.target)
      THEN result = Err("InvalidProofOfWork")
      ELSE IF Submitted.digest # Block_hash(Submitted) THEN result = Err("HashDigestMismatch")
      ELSE IF Submitted.timestamp > now THEN result = Err("TimestampInFuture")
      ELSE IF DuplicateOutpoint(Submitted) THEN result.tag = "InvalidTransactions"
      ELSE IF validate_transactions(Submitted, now) # "Ok"
           THEN result = InvalidTransactions(validate_transactions(Submitted, now))
      ELSE result.tag \notin {"InvalidProofOfWork", "HashDigestMismatch", "TimestampInFuture"}

\* transactions[0] is not a coinbase: it has an input, or not exactly one
\* output, or an id that is not its recomputed hash
FirstIsNotCoinbase(b) ==
    /\ b.transactions # <<>>
    /\ \/ Len(b.transactions[1].inputs) >= 1
       \/ Len(b.transactions[1].outputs) # 1
       \/ b.transactions[1].id # Transaction_hash(b.transactions[1])

(***************************************************************************)
(* C13, as stated: a block with valid proof of work and digest whose first *)
(* transaction is not a coinbase is rejected with                          *)
(* InvalidTransactions(InvalidCoinbase).                                   *)
(***************************************************************************)
C13_AsStated ==
    ( /\ Called
      /\ HashNum(Block_hash(Submitted)) < HashNum(Submitted.target)
      /\ Submitted.digest = Block_hash(Submitted)
      /\ FirstIsNotCoinbase(Submitted) )
    => result = InvalidTransactions("InvalidCoinbase")

(***************************************************************************)
(* C13, amended: a block with valid proof of work and digest, a timestamp  *)
(* not in the future and no outpoint referenced twice by                   *)
(* transactions[1..], whose first transaction is not a coinbase, is        *)
(* rejected with InvalidTransactions(InvalidCoinbase); and transactions[0] *)
(* of every accepted block has no input and exactly one output.            *)
(***************************************************************************)
C13_FirstTransactionIsCoinbase ==
    /\ ( /\ Called
         /\ HashNum(Block_hash(Submitted)) < HashNum(Submitted.target)
         /\ Submitted.digest = Block_hash(Submitted)
         /\ Submitted.timestamp <= now
         /\ ~DuplicateOutpoint(Submitted)
         /\ FirstIsNotCoinbase(Submitted) )
       => result = InvalidTransactions("InvalidCoinbase")
    /\ \A n \in 2..Len(chain) :
         /\ chain[n].transactions # <<>>
         /\ Len(chain[n].transactions[1].inputs) = 0
         /\ Len(chain[n].transactions[1].outputs) = 1

\* test_missing_coinbase_tx: a signed spend is the only transaction
C13_Witness ==
    /\ Called
    /\ Len(Submitted.transactions) = 1
    /\ Len(Submitted.transactions[1].inputs) >= 1
    /\ TxInput_verify_signature(Submitted.transactions[1].inputs[1]) = "Ok"
    /\ result = InvalidTransactions("InvalidCoinbase")

\* a transaction of the form new_coinbase builds
IsCoinbaseForm(tx) ==
    /\ Len(tx.inputs) = 0
    /\ Len(tx.outputs) = 1
    /\ tx.id = Transaction_hash(tx)

\* the block reaches validate_transactions with a coinbase in both of its
\* first two places
TwoCoinbases ==
    /\ Called
    /\ HashNum(Block_hash(Submitted)) < HashNum(Submitted.target)
    /\ Submitted.digest = Block_hash(Submitted)
    /\ Submitted.timestamp <= now
    /\ ~DuplicateOutpoint(Submitted)
    /\ Len(Submitted.transactions) >= 2
    /\ IsCoinbaseForm(Submitted.transactions[1])
    /\ IsCoinbaseForm(Submitted.transactions[2])

(***************************************************************************)
(* C14: a block into which a coinbase was inserted twice, so that          *)
(* transactions[1] is a second coinbase transaction, is rejected with      *)
(* InvalidTransactions(InvalidPublicKey).                                  *)
(***************************************************************************)
C14_SecondCoinbaseInvalidPublicKey ==
    TwoCoinbases => result = InvalidTransactions("InvalidPublicKey")

\* the error of the first rule, in the order EmptyInputs, EmptyOutputs,
\* signature of the first bad input, DuplicateInput, ZeroValueOutput,
\* DuplicateOutput, InvalidID, InvalidTimestamp, that tx violates at time t
FirstViolatedRule(tx, t) ==
    LET badSig == {i \in DOMAIN tx.inputs : TxInput_verify_signature(tx.inputs[i]) # "Ok"}
    IN  IF Len(tx.inputs) = 0 THEN "EmptyInputs"
        ELSE IF Len(tx.outputs) = 0 THEN "EmptyOutputs"
        ELSE IF badSig # {}
             THEN TxInput_verify_signature(tx.inputs[CHOOSE i \in badSig : \A j \in badSig : i <= j])
        ELSE IF \E i, j \in DOMAIN tx.inputs : i # j /\ Outpoint(tx.inputs[i]) = Outpoint(tx.inputs[j])
             THEN "DuplicateInput"
        ELSE IF \E i \in DOMAIN tx.outputs : tx.outputs[i].value = 0 THEN "ZeroValueOutput"
        ELSE IF \E i, j \in DOMAIN tx.outputs : i # j /\ tx.outputs[i].pkhash = tx.outputs[j].pkhash
             THEN "DuplicateOutput"
        ELSE IF tx.id # Transaction_hash(tx) THEN "InvalidID"
        ELSE IF tx.timestamp > t THEN "InvalidTimestamp"
        ELSE "Ok"

(***************************************************************************)
(* C15: Transaction::verify returns the error of the first failing check   *)
(* in the order EmptyInputs, EmptyOutputs, signature error of the first    *)
(* bad input, DuplicateInput, ZeroValueOutput, DuplicateOutput, InvalidID, *)
(* InvalidTimestamp; a transaction with a zero-value output and two        *)
(* outputs of one pkhash yields ZeroValueOutput wherever the zero is.      *)
(***************************************************************************)
C15_VerifyReportsFirstRule ==
    probe[1].out # "none" => probe[1].out = FirstViolatedRule(Probed, now)

\* what mine(block, B, r), returning at time t, leaves in b
MinedWith(b, B, r, t) ==
    /\ b.transactions # <<>>
    /\ b.transactions[1].inputs = <<>>
    /\ b.transactions[1].outputs = <<[value |-> r, pkhash |-> B]>>
    /\ b.transactions[1].id = Transaction_hash(b.transactions[1])
    /\ b.digest = Block_hash(b)
    /\ HashNum(b.digest) < HashNum(b.target)
    /\ Block_validate(b, t).tag \notin {"InvalidProofOfWork", "HashDigestMismatch"}

(***************************************************************************)
(* C16: every step mine(block, B, r) ends with a block whose               *)
(* transactions[0] is a coinbase with the single output (r, B), whose      *)
(* digest is its hash() and is below its target, so that Block::validate   *)
(* fails on it neither with InvalidProofOfWork nor HashDigestMismatch.     *)
(***************************************************************************)
C16_MineResult ==
    [][\A pr \in MineInputs :
         (pc = "building" /\ pc' = "mined" /\ block' = <<mine(block[1], pr[1], pr[2], now)>>)
         => MinedWith(block'[1], pr[1], pr[2], now')]_vars

\* mine returned after its loop ran, on a block that already held a transaction
C16_Witness ==
    /\ pc = "mined"
    /\ block[1].nonce > 0
    /\ Len(block[1].transactions) >= 2
    /\ \E pr \in MineInputs : MinedWith(block[1], pr[1], pr[2], now)

(***************************************************************************)
(* C17: while no block has been accepted the chain is [genesis] and the    *)
(* UTXO set is empty; once exactly one block has been accepted, and it     *)
(* holds only a coinbase paying get_block_reward() to B, the UTXO set is   *)
(* the single entry (coinbase id, 0) -> (get_block_reward(), B).           *)
(***************************************************************************)
C17_GenesisThenOneReward ==
    /\ Len(chain) = 1 => (chain = <<genesis>> /\ DOMAIN utxos = {})
    /\ ( /\ Len(chain) = 2
         /\ Len(chain[2].transactions) = 1
         /\ chain[2].transactions[1].outputs[1].value = get_block_reward )
       => /\ DOMAIN utxos = {<<chain[2].transactions[1].id, 0>>}
          /\ utxos[<<chain[2].transactions[1].id, 0>>]
                = [value |-> get_block_reward,
                   pkhash |-> chain[2].transactions[1].outputs[1].pkhash]

\* scenario A: the first block, mined to the wallet's pkhash, was accepted
C17_Witness ==
    /\ Called
    /\ result = Ok
    /\ PreChain = <<genesis>>
    /\ DOMAIN PreUtxos = {}
    /\ Len(Submitted.transactions) = 1
    /\ Submitted.transactions[1].outputs
          = <<[value |-> get_block_reward, pkhash |-> Wallet_pkhash(1)]>>
    /\ Cardinality(DOMAIN utxos) = 1

(***************************************************************************)
(* C18: every next_block() step yields a block with no transactions,       *)
(* nonce 0, the chain's target, prev_hash equal to the tip's digest and    *)
(* index equal to chain.len(), which is tip.index + 1, and leaves the      *)
(* chain and the UTXO set as they were.                                    *)
(***************************************************************************)
C18_NextBlockTemplate ==
    [][(pc = "idle" /\ pc' = "building")
       => /\ block'[1].transactions = <<>>
          /\ block'[1].nonce = 0
          /\ block'[1].target = ChainTarget
          /\ block'[1].prev_hash = chain[Len(chain)].digest
          /\ block'[1].index = Len(chain)
          /\ Len(chain) = chain[Len(chain)].index + 1
          /\ chain' = chain
          /\ utxos' = utxos]_vars

\* the template for the third block, over a non-empty UTXO set
C18_Witness ==
    /\ pc = "building"
    /\ Len(chain) = 2
    /\ DOMAIN utxos # {}
    /\ block[1] = next_block(chain, now)
    /\ block[1].index = 2
    /\ block[1].prev_hash = chain[2].digest
    /\ block[1].transactions = <<>>

(***************************************************************************)
(* C19: under the calls of main.rs, a block that next_block() gave and     *)
(* that only mine(block, B, get_block_reward()) completed (its single      *)
(* transaction is the coinbase) is accepted by add_block with Ok, however  *)
(* many such blocks were accepted before it and whatever the clock did in  *)
(* between.                                                                *)
(***************************************************************************)
C19_MinedTemplateAccepted ==
    ( /\ Called
      /\ Len(Submitted.transactions) = 1
      /\ Submitted.transactions[1].inputs = <<>> )
    => result = Ok

\* the fourth block in a row mined and accepted within the second of genesis
C19_Witness ==
    /\ Called
    /\ result = Ok
    /\ Len(chain) = 5
    /\ now = GenesisTimestamp
    /\ \A n \in 2..Len(chain) :
         /\ Len(chain[n].transactions) = 1
         /\ chain[n].transactions[1].inputs = <<>>
         /\ chain[n].timestamp = GenesisTimestamp

\* two transactions that differ at most in the signature bytes of their inputs
SameUnsignedParts(tx1, tx2) ==
    /\ tx1.timestamp = tx2.timestamp
    /\ tx1.outputs = tx2.outputs
    /\ Len(tx1.inputs) = Len(tx2.inputs)
    /\ \A i \in DOMAIN tx1.inputs :
         /\ tx1.inputs[i].txid = tx2.inputs[i].txid
         /\ tx1.inputs[i].output = tx2.inputs[i].output
         /\ tx1.inputs[i].pubkey = tx2.inputs[i].pubkey

(***************************************************************************)
(* C20: the recomputed hash of a transaction does not depend on signature  *)
(* bytes: the transaction as signed and the same transaction after writes  *)
(* to its fields, if they agree in timestamp, outputs and the (txid,       *)
(* output, pubkey) of every input, have the same hash.                     *)
(***************************************************************************)
C20_IdIgnoresSignatures ==
    (probe[1].signed # <<>> /\ SameUnsignedParts(Probed, probe[1].signed[1]))
    => Transaction_hash(Probed) = Transaction_hash(probe[1].signed[1])

\* the transaction that sign left in the probe
SignedProbe == probe[1].signed[1]

\* at least one input, no outpoint twice, at least one output, no zero
\* value, no pkhash twice, a timestamp not after t
Signable(tx, t) ==
    /\ Len(tx.inputs) >= 1
    /\ \A i, j \in DOMAIN tx.inputs : i # j => Outpoint(tx.inputs[i]) # Outpoint(tx.inputs[j])
    /\ Len(tx.outputs) >= 1
    /\ \A i \in DOMAIN tx.outputs : tx.outputs[i].value # 0
    /\ \A i, j \in DOMAIN tx.outputs : i # j => tx.outputs[i].pkhash # tx.outputs[j].pkhash
    /\ tx.timestamp <= t

\* the writes after sign touched signature bytes only, and changed some
SignatureAltered ==
    /\ SameUnsignedParts(Probed, SignedProbe)
    /\ Probed.id = SignedProbe.id
    /\ \E i \in DOMAIN Probed.inputs : Probed.inputs[i].signature # SignedProbe.inputs[i].signature

(***************************************************************************)
(* C21: for every key and every transaction with at least one input,       *)
(* distinct outpoints, at least one output, non-zero values, distinct      *)
(* output pkhashes and a timestamp not in the future, verify() after       *)
(* sign(key) returns Ok; and once the signature of an input has been       *)
(* altered, verify() returns InvalidSignature or                           *)
(* SignatureVerificationFailed, not InvalidID.                             *)
(***************************************************************************)
C21_SignThenVerify ==
    ( /\ probe[1].signed # <<>>
      /\ probe[1].out # "none"
      /\ Signable(SignedProbe, now) )
    => /\ Probed = SignedProbe => probe[1].out = "Ok"
       /\ SignatureAltered
             => probe[1].out \in {"InvalidSignature", "SignatureVerificationFailed"}

\* test_fails_if_signature_tampered, on the second of two inputs signed by
\* the second key
C21_Witness ==
    /\ probe[1].signed # <<>>
    /\ Signable(SignedProbe, now)
    /\ Len(Probed.inputs) = 2
    /\ Probed.inputs[2].pubkey = to_encoded_point(2, TRUE)
    /\ Probed.inputs[1].signature = SignedProbe.inputs[1].signature
    /\ SignatureAltered
    /\ probe[1].out = "SignatureVerificationFailed"

\* h < t as big-endian unsigned integers: they differ, and at the first
\* byte where they differ the byte of h is the smaller
BigEndianLess(h, t) ==
    \E i \in DOMAIN h :
      /\ h[i] < t[i]
      /\ \A j \in 1..(i - 1) : h[j] = t[j]

(***************************************************************************)
(* C22: for all pairs of byte arrays h and t, hash_less_than_target(h, t)  *)
(* is true iff h < t as big-endian unsigned integers, and Block::validate  *)
(* rejects the proof of work iff hash_less_than_target(h, t) is false, so  *)
(* the mining loop stops exactly at the values validate lets through; for  *)
(* h = t the first is false and the second rejects.                        *)
(***************************************************************************)
C22_ProofOfWorkComparison ==
    /\ probe[1].less # <<>>
          => probe[1].less[1] = BigEndianLess(probe[1].hash, probe[1].target)
    /\ probe[1].rejected # <<>>
          => probe[1].rejected[1] = ~BigEndianLess(probe[1].hash, probe[1].target)
    /\ (probe[1].less # <<>> /\ probe[1].rejected # <<>>)
          => /\ probe[1].less[1] = ~probe[1].rejected[1]
             /\ probe[1].hash = probe[1].target
                   => (~probe[1].less[1] /\ probe[1].rejected[1])

\* both tests ran on a hash whose first byte is below the target's and
\* whose last byte is above it
C22_Witness ==
    /\ probe[1].hash[1] < probe[1].target[1]
    /\ probe[1].hash[HashBytes] > probe[1].target[HashBytes]
    /\ probe[1].less = <<TRUE>>
    /\ probe[1].rejected = <<FALSE>>

(***************************************************************************)
(* C23: in every reachable state the chain is non-empty and starts with    *)
(* the genesis block, and every later block chain[i] has index i, the      *)
(* digest of chain[i-1] as prev_hash, a timestamp not below that of        *)
(* chain[i-1] and a digest equal to its hash(); every step leaves the      *)
(* blocks already in the chain where and as they were.                     *)
(***************************************************************************)
C23_ChainShape ==
    /\ [](/\ chain # <<>>
          /\ chain[1] = genesis
          /\ \A n \in 2..Len(chain) :
               /\ chain[n].index = n - 1
               /\ chain[n].prev_hash = chain[n - 1].digest
               /\ chain[n].timestamp >= chain[n - 1].timestamp
               /\ chain[n].digest = Block_hash(chain[n]))
    /\ [][/\ Len(chain') >= Len(chain)
          /\ SubSeq(chain', 1, Len(chain)) = chain]_vars

\* a third block, mined a second after the second, was accepted
C23_Witness ==
    /\ Called
    /\ result = Ok
    /\ Len(chain) = 3
    /\ chain[3].timestamp > chain[2].timestamp
    /\ chain[3].transactions[1].timestamp > chain[2].timestamp

(***************************************************************************)
(* C24: the digest of every block of the chain after genesis, read as a    *)
(* big-endian integer, is strictly below the target of the Blockchain      *)
(* itself, whatever target the block carries.                              *)
(***************************************************************************)
C24_DigestBelowChainTarget ==
    \A n \in 2..Len(chain) : HashNum(chain[n].digest) < HashNum(ChainTarget)

(***************************************************************************)
(* C25: in every reachable state the values of all entries of the UTXO set *)
(* sum to at most get_block_reward() * (chain.len() - 1).                  *)
(***************************************************************************)
C25_ValueConservation ==
    LET RECURSIVE TotalValue(_)
        TotalValue(keys) ==
            IF keys = {} THEN 0
            ELSE LET k == CHOOSE k \in keys : TRUE
                 IN  utxos[k].value + TotalValue(keys \ {k})
    IN  TotalValue(DOMAIN utxos) <= get_block_reward * (Len(chain) - 1)

(***************************************************************************)
(* C26: when add_block accepts a block, no key (tx.id, k) of an output of  *)
(* the block was in the UTXO set unless an input of the block consumed it, *)
(* and the number of entries grows by the number of outputs of the block   *)
(* minus the number of its inputs; the coinbase of the block has another   *)
(* id than the coinbase of every block accepted before it, also when both  *)
(* pay the same beneficiary the same reward within the same second.        *)
(***************************************************************************)
C26_NoLiveEntryOverwritten ==
    (Called /\ result = Ok) =>
      LET RECURSIVE OutputCount(_, _)
          OutputCount(txs, n) ==
              IF n > Len(txs) THEN 0 ELSE Len(txs[n].outputs) + OutputCount(txs, n + 1)
      IN  /\ \A key \in OutputKeys(Submitted) :
                key \notin DOMAIN PreUtxos \ InputKeys(Submitted)
          /\ Cardinality(DOMAIN utxos)
                = Cardinality(DOMAIN PreUtxos) + OutputCount(Submitted.transactions, 1)
                     - Len(SpentFrom(Submitted.transactions, 1))
          /\ \A n \in 2..Len(PreChain) :
                PreChain[n].transactions[1].id # Submitted.transactions[1].id

(***************************************************************************)
(* C27: a block with valid proof of work, a matching digest, a timestamp   *)
(* not in the future and no transaction at all is rejected with the typed  *)
(* error InvalidTransactions(InvalidCoinbase); the call does not abort.    *)
(***************************************************************************)
C27_EmptyBlockTypedError ==
    ( /\ Called
      /\ HashNum(Block_hash(Submitted)) < HashNum(Submitted.target)
      /\ Submitted.digest = Block_hash(Submitted)
      /\ Submitted.timestamp <= now
      /\ Submitted.transactions = <<>> )
    => (result # Panic /\ result = InvalidTransactions("InvalidCoinbase"))

(***************************************************************************)
(* C28: when stateful validation reaches an input of a non-coinbase        *)
(* transaction that refers to an output created by a transaction of the    *)
(* same block, the coinbase included, add_block rejects the block with     *)
(* InvalidTransactions(InvalidUTXO): only the committed UTXO set is read.  *)
(***************************************************************************)
C28_SameBlockOutputNotSpendable ==
    Called =>
      \A i \in 2..Len(Submitted.transactions) :
        \A j \in DOMAIN Submitted.transactions[i].inputs :
          ( /\ ReachesInput(i, j)
            /\ Outpoint(Submitted.transactions[i].inputs[j]) \in OutputKeys(Submitted) )
          => result = InvalidTransactions("InvalidUTXO")

(***************************************************************************)
(* C29: for every transaction whose fee check stateful validation reaches, *)
(* the signed quantities of the check equal the unsigned values they were  *)
(* converted from, and the verdict on the transaction is Overspend iff the *)
(* mathematical sum of its output values exceeds the mathematical sum of   *)
(* the values of the outputs its inputs refer to, also for values of 2^63  *)
(* and above.                                                              *)
(***************************************************************************)
C29_OverspendExactOverU64 ==
    Called =>
      \A i \in 2..Len(Submitted.transactions) :
        ReachesInput(i, Len(Submitted.transactions[i].inputs) + 1) =>
          /\ \A k \in DOMAIN Submitted.transactions[i].outputs :
                AsI64(Submitted.transactions[i].outputs[k].value)
                   = Submitted.transactions[i].outputs[k].value
          /\ (StatefulInputs(PreUtxos, Submitted.transactions[i], 1, 0) = "Overspend")
                <=> (SumValues(Submitted.transactions[i].outputs, 1)
                        > InputsValue(PreUtxos, Submitted.transactions[i]))

(***************************************************************************)
(* C30: when add_block accepts a block, the timestamp of the block and the *)
(* timestamp of every transaction of the block, the coinbase included, are *)
(* not later than the clock at the time of the call.                       *)
(***************************************************************************)
C30_NoTimestampAfterAcceptance ==
    (Called /\ result = Ok) =>
      /\ Submitted.timestamp <= now
      /\ \A n \in DOMAIN Submitted.transactions : Submitted.transactions[n].timestamp <= now

(***************************************************************************)
(* C31: update_nonce_and_timestamp increases nonce by exactly 1, sets      *)
(* timestamp to the current time iff the new nonce is a multiple of 1000   *)
(* and otherwise leaves it as it was, stores the recomputed digest, and    *)
(* leaves index, prev_hash, target and transactions unchanged.             *)
(***************************************************************************)
C31_UpdateNonceAndTimestamp ==
    probe[1].op = "update_nonce_and_timestamp" =>
      LET pre == probe[1].pre[1]
      IN  /\ block[1].nonce = pre.nonce + 1
          /\ block[1].nonce % NonceRefresh = 0 => block[1].timestamp = probe[1].at
          /\ block[1].nonce % NonceRefresh # 0 => block[1].timestamp = pre.timestamp
          /\ block[1].digest = Block_hash(block[1])
          /\ block[1].index = pre.index
          /\ block[1].prev_hash = pre.prev_hash
          /\ block[1].target = pre.target
          /\ block[1].transactions = pre.transactions

\* the thousandth call took the time of a clock that had advanced since
\* Block::new, on a block that holds a transaction
C31_Witness ==
    /\ probe[1].op = "update_nonce_and_timestamp"
    /\ block[1].nonce = NonceRefresh
    /\ probe[1].pre[1].timestamp < probe[1].at
    /\ block[1].timestamp = probe[1].at
    /\ block[1].transactions # <<>>

(***************************************************************************)
(* C32: after Block::new and after every call of add_tx, add_coinbase_tx   *)
(* or update_nonce_and_timestamp, in any order and number, digest equals   *)
(* hash() over the current index, timestamp, prev_hash, target,            *)
(* transactions and nonce; add_tx puts its transaction at the end, and     *)
(* add_coinbase_tx puts a coinbase for its beneficiary and reward at       *)
(* position 0 and moves every other transaction up by one, removing none.  *)
(***************************************************************************)
C32_DigestFollowsEveryCall ==
    /\ block[1].digest = Block_hash(block[1])
    /\ probe[1].op = "new" => block[1].transactions = probe[1].args[1]
    /\ probe[1].op = "add_tx"
          => block[1].transactions = Append(probe[1].pre[1].transactions, probe[1].args[1])
    /\ probe[1].op = "add_coinbase_tx"
          => /\ Len(block[1].transactions) = Len(probe[1].pre[1].transactions) + 1
             /\ block[1].transactions[1].inputs = <<>>
             /\ block[1].transactions[1].outputs
                   = <<[value |-> probe[1].args[2], pkhash |-> probe[1].args[1]]>>
             /\ \A n \in DOMAIN probe[1].pre[1].transactions :
                   block[1].transactions[n + 1] = probe[1].pre[1].transactions[n]

\* a coinbase was inserted before the transaction of a block whose nonce
\* had been advanced
C32_Witness ==
    /\ probe[1].op = "add_coinbase_tx"
    /\ probe[1].pre[1].nonce > 0
    /\ Len(probe[1].pre[1].transactions) = 1
    /\ Len(probe[1].pre[1].transactions[1].inputs) = 1
    /\ block[1].transactions[2] = probe[1].pre[1].transactions[1]
    /\ block[1].digest # probe[1].pre[1].digest

====
